---- MODULE Spec2Model ----
(***************************************************************************)
(* Model of the ArgoCD rollout orchestrator of                             *)
(* k8s/bootstrap/platform/platform/services/argocd.py:                     *)
(* ArgoCDService.sync_in_order and the client methods it calls             *)
(* (get_app, get_app_status, sync_app, wait_for_health, enable_auto_sync,  *)
(* _api_request, _get_token, _port_forward).                               *)
(*                                                                         *)
(* The control plane is the environment: every HTTP request is answered    *)
(* by a nondeterministically chosen response (or fails in transport).      *)
(* Time is measured relative to the start of the loop that is running:     *)
(* elapsed is time.time() - start_time, slept the part spent in            *)
(* time.sleep.                                                             *)
(***************************************************************************)
EXTENDS Integers, Sequences, FiniteSets, TLC

(* ------------------------------ bounds --------------------------------- *)

\* Per waiting loop, at most MaxLag requests take one time unit to answer
\* (all others answer at once).
MaxLag == 1

\* Connections clients make to the local port of a _PortForwarder.
MaxConns == 2

\* Calls of create_crossplane_role made one after the other.
MaxCalls == 4

(* --------------------------- program constants ------------------------- *)

\* argocd.py:316  `retries < 12`
MaxRetries == 12
\* argocd.py:318  `time.sleep(5)` of the existence wait
ExistsInterval == 5
\* argocd.py:252  `time.sleep(5)` of the health poll
PollInterval == 5

\* argocd.py:298-303  the ordered (application, timeout) list
apps ==
  << [name |-> "crossplane",           timeout |-> 300],
     [name |-> "crossplane-providers", timeout |-> 600],
     [name |-> "infrastructure",       timeout |-> 900],
     [name |-> "supabase",             timeout |-> 300] >>

Stages == 1..Len(apps)

(* ------------------------- python dictionaries ------------------------- *)

EmptyDict == [k \in {} |-> 0]

\* dict.get(k, default)
Get(d, k, default) == IF k \in DOMAIN d THEN d[k] ELSE default

\* truth value of a dict: `if not app`
Truthy(d) == DOMAIN d # {}

(* ------------------------- control-plane answers ----------------------- *)

SyncValues == {"Synced", "OutOfSync", "Unknown"}
HealthValues == {"Healthy", "Progressing", "Degraded", "Suspended", "Missing", "Unknown"}

SyncDicts == {EmptyDict} \cup {[status |-> s] : s \in SyncValues}
HealthDicts == {EmptyDict} \cup {[status |-> h] : h \in HealthValues}

StatusDicts ==
  {EmptyDict}
    \cup {[sync |-> s] : s \in SyncDicts}
    \cup {[health |-> h] : h \in HealthDicts}
    \cup {[sync |-> s, health |-> h] : s \in SyncDicts, h \in HealthDicts}

\* JSON bodies of GET /api/v1/applications/<name>
AppBodies ==
  {EmptyDict, [metadata |-> "m"]}
    \cup {[metadata |-> "m", status |-> st] : st \in StatusDicts}

\* 200/201 success, 401 auth failure, 404 absent, 409 operation in progress,
\* 500/503 server errors
StatusCodes == {200, 201, 401, 404, 409, 500, 503}

\* What requests.request hands back: a response, or an exception
\* (connection refused, timeout) when exc is TRUE.
ConnectionError == [exc |-> TRUE, status_code |-> 0, json |-> EmptyDict]

Responses ==
  {ConnectionError}
    \cup {[exc |-> FALSE, status_code |-> c, json |-> b] :
            c \in StatusCodes, b \in AppBodies}

\* requests.Response.raise_for_status: HTTPError for 4xx and 5xx
raise_for_status(code) == code >= 400 /\ code < 600

(* ----------------------------- client methods -------------------------- *)

Raised == [kind |-> "raise", value |-> EmptyDict]
None == [kind |-> "none", value |-> EmptyDict]
Value(v) == [kind |-> "value", value |-> v]

\* faulty variant of get_app: the raise_for_status call (argocd.py:186) left out
get_app_NoRaise(r) ==
  IF r.exc THEN Raised
  ELSE IF r.status_code = 404 THEN None
  ELSE Value(r.json)

\* argocd.py:181-187
get_app(r) ==
  IF r.exc THEN Raised
  ELSE IF r.status_code = 404 THEN None
  ELSE IF raise_for_status(r.status_code) THEN Raised
  ELSE Value(r.json)

StatusRaised == [kind |-> "raise", sync |-> "", health |-> ""]
Status(s, h) == [kind |-> "return", sync |-> s, health |-> h]

\* faulty variant of get_app_status: an exception of get_app swallowed and
\* reported as (Unknown, Unknown)
get_app_status_Swallow(r) ==
  LET app == get_app(r) IN
    IF app.kind = "raise" \/ app.kind = "none" \/ ~Truthy(app.value)
    THEN Status("Unknown", "Unknown")
    ELSE LET status == Get(app.value, "status", EmptyDict)
             sync_status == Get(Get(status, "sync", EmptyDict), "status", "Unknown")
             health_status == Get(Get(status, "health", EmptyDict), "status", "Unknown")
         IN Status(sync_status, health_status)

\* argocd.py:189-198
get_app_status(r) ==
  LET app == get_app(r) IN
    IF app.kind = "raise" THEN StatusRaised
    ELSE IF app.kind = "none" \/ ~Truthy(app.value) THEN Status("Unknown", "Unknown")
    ELSE LET status == Get(app.value, "status", EmptyDict)
             sync_status == Get(Get(status, "sync", EmptyDict), "status", "Unknown")
             health_status == Get(Get(status, "health", EmptyDict), "status", "Unknown")
         IN Status(sync_status, health_status)

\* argocd.py:214-218  the acknowledgment sync_app returns
sync_app(code) == code \in {200, 201}

\* faulty variants of IsTarget: the sync status compared with the health
\* value; the sync status not compared at all
IsTarget_Typo(sync, health) == health = "Healthy" /\ sync = "Healthy"
IsTarget_HealthOnly(sync, health) == health = "Healthy"

\* argocd.py:244  target condition of wait_for_health
IsTarget(sync, health) == health = "Healthy" /\ sync = "Synced"

\* faulty variant of IsDegraded: the sync status tested in place of the health
IsDegraded_WrongField(sync, health) == sync = "Degraded"

\* faulty variant of IsDegraded: a Missing application failed at once too
IsDegraded_OrMissing(sync, health) == health \in {"Degraded", "Missing"}

\* argocd.py:248
IsDegraded(sync, health) == health = "Degraded"

\* faulty variant of WithinTimeout: `<=` for `<`
WithinTimeout_Inclusive(t, timeout) == t <= timeout

\* faulty variant of WithinTimeout: one more interval granted
WithinTimeout_Lenient(t, timeout) == t < timeout + PollInterval

\* argocd.py:237  loop condition of wait_for_health
WithinTimeout(t, timeout) == t < timeout

\* faulty variant of StillWaiting: `<=` for `<`
StillWaiting_OffByOne(app, n) == app.kind = "none" /\ n <= MaxRetries

\* faulty variant of StillWaiting: the wait goes on until the application
\* is healthy
StillWaiting_UntilHealthy(app, n) ==
  /\ n < MaxRetries
  /\ \/ app.kind = "none"
     \/ /\ app.kind = "value"
        /\ Get(Get(Get(app.value, "status", EmptyDict), "health", EmptyDict), "status", "Unknown") # "Healthy"

\* faulty variant of StillWaiting: the retry limit left out
StillWaiting_Forever(app, n) == app.kind = "none"

\* argocd.py:316  loop condition of the existence wait
StillWaiting(app, n) == app.kind = "none" /\ n < MaxRetries

\* faulty variant of NotFound: the check after the wait left out
NotFound_Unchecked(app) == FALSE

\* argocd.py:321
NotFound(app) == app.kind = "none"

\* argocd.py:283
PatchAccepted(code) == code = 200

\* the answers the environment can make get_app / get_app_status produce
GetAppResults == {get_app(r) : r \in Responses}
StatusResults == {get_app_status(r) : r \in Responses}

\* argocd.py:173-179  how a request sent by _api_request ended: with an
\* exception of requests ("exc"), or with a response that is a 404, another
\* error status, or a success
Answer(r) ==
  IF r.exc THEN "exc"
  ELSE IF r.status_code = 404 THEN "404"
  ELSE IF raise_for_status(r.status_code) THEN "error"
  ELSE "ok"

\* the same answers, each with the way its request ended
GetAppAnswers == {[answer |-> Answer(r), app |-> get_app(r)] : r \in Responses}
StatusAnswers == {[answer |-> Answer(r), st |-> get_app_status(r)] : r \in Responses}

\* argocd.py:194-196  the status fields of an application that was fetched
NoContent == [sync |-> "", health |-> ""]
Field(json, k) == Get(Get(Get(json, "status", EmptyDict), k, EmptyDict), "status", "missing")
Content(app) ==
  IF app.kind = "value"
  THEN [sync |-> Field(app.value, "sync"), health |-> Field(app.value, "health")]
  ELSE NoContent

(* ------------------------------- session ------------------------------- *)

\* answers to POST /api/v1/session (argocd.py:148-154)
SessionResponses ==
  {[exc |-> TRUE, status_code |-> 0]}
    \cup {[exc |-> FALSE, status_code |-> c] : c \in {200, 401, 503}}

\* what the first authenticated request meets: whether the admin secret can
\* be read, and the answer to the login request
Logins == {[secret |-> s, session |-> r] : s \in BOOLEAN, r \in SessionResponses}

\* faulty variant of _get_token: the cached token not looked at
_get_token_NoCache(tok, env) ==
  IF ~env.secret THEN [raised |-> TRUE, token |-> FALSE, reads |-> 1, posts |-> 0]
  ELSE IF env.session.exc \/ raise_for_status(env.session.status_code)
       THEN [raised |-> TRUE, token |-> FALSE, reads |-> 1, posts |-> 1]
  ELSE [raised |-> FALSE, token |-> TRUE, reads |-> 1, posts |-> 1]

\* faulty variant of _get_token: a failed login not raised
_get_token_NoRaise(tok, env) ==
  IF tok THEN [raised |-> FALSE, token |-> TRUE, reads |-> 0, posts |-> 0]
  ELSE IF ~env.secret THEN [raised |-> TRUE, token |-> FALSE, reads |-> 1, posts |-> 0]
  ELSE IF env.session.exc \/ raise_for_status(env.session.status_code)
       THEN [raised |-> FALSE, token |-> FALSE, reads |-> 1, posts |-> 1]
  ELSE [raised |-> FALSE, token |-> TRUE, reads |-> 1, posts |-> 1]

\* argocd.py:141-157  tok is the cached self._token (TRUE when set)
_get_token(tok, env) ==
  IF tok THEN [raised |-> FALSE, token |-> TRUE, reads |-> 0, posts |-> 0]
  ELSE IF ~env.secret THEN [raised |-> TRUE, token |-> FALSE, reads |-> 1, posts |-> 0]
  ELSE IF env.session.exc \/ raise_for_status(env.session.status_code)
       THEN [raised |-> TRUE, token |-> FALSE, reads |-> 1, posts |-> 1]
  ELSE [raised |-> FALSE, token |-> TRUE, reads |-> 1, posts |-> 1]

(* -------------------------------- output ------------------------------- *)

\* faulty variant of Line: the application left out of the printed line
Line_Anonymous(msg, s) == [msg |-> msg, app |-> 0]

\* console.print lines, by the place that prints them
Line(msg, s) == [msg |-> msg, app |-> s]

(* -------------------------------- state -------------------------------- *)

VARIABLES
  pc,             \* position of sync_in_order
  stage,          \* index into apps of the current for-loop iteration
  retries,        \* argocd.py:315
  elapsed,        \* time.time() - start of the running loop
  slept,          \* time spent in time.sleep in the running loop
  sync_status,    \* argocd.py:238, last value read
  health_status,  \* argocd.py:238, last value read
  token,          \* self._token is set
  logins,         \* POST /api/v1/session requests sent
  pwReads,        \* reads of argocd-initial-admin-secret
  forwarder,      \* the _PortForwarder of _port_forward
  stops,          \* calls of forwarder.stop()
  result,         \* what sync_in_order returned
  console,        \* lines printed by the latest step
  probes,         \* existence probes (get_app) made for the current stage
  misses,         \* leading probes of the current stage that returned None
  issued,         \* client methods called by the latest step
  called,         \* per stage, the client methods called for it
  syncs,          \* per stage, sync requests issued
  patches,        \* per stage, auto-sync PATCH requests issued
  healthy,        \* stages of which a status poll returned (Synced, Healthy)
  answer,         \* how the last request sent by the latest step ended
  probed,         \* status fields in the answer to the last existence probe
  resp,           \* input of the get_app_status check
  ret             \* its result

\* a _PortForwarder with its threads (argocd.py:19-92)
VARIABLES
  _running,       \* argocd.py:31
  _server,        \* the listening socket, argocd.py:25-29
  caller,         \* position of the thread that calls start() and stop()
  accept_loop,    \* position of the thread running _accept_loop
  backlog,        \* connections made by clients and not yet accepted
  conns,          \* per accepted connection, its _handle_connection thread
  late            \* connections accepted after stop() cleared _running

pfVars == << _running, _server, caller, accept_loop, backlog, conns, late >>

\* the IAM account and the calls of AWSService.create_crossplane_role
\* (aws.py:126-163)
VARIABLES
  role,           \* the Crossplane role in IAM
  iam_pc,         \* position of the running call
  iam_calls,      \* calls made so far
  iam_writes,     \* IAM mutations made by the running or last call
  iam_found,      \* what role_exists returned to the running or last call
  iam_log         \* how each finished call ended, oldest first

iamVars == << role, iam_pc, iam_calls, iam_writes, iam_found, iam_log >>

vars ==
  << pc, stage, retries, elapsed, slept, sync_status, health_status, token,
     logins, pwReads, forwarder, stops, result, console, probes, misses,
     issued, called, syncs, patches, healthy, answer, probed, resp, ret,
     pfVars, iamVars >>

NoResult == [kind |-> "pending", sync |-> "", health |-> ""]

InitRollout ==
  /\ pc = "start"
  /\ stage = 1
  /\ retries = 0
  /\ elapsed = 0
  /\ slept = 0
  /\ sync_status = ""
  /\ health_status = ""
  /\ token = FALSE
  /\ logins = 0
  /\ pwReads = 0
  /\ forwarder = "none"
  /\ stops = 0
  /\ result = "running"
  /\ console = << >>
  /\ probes = 0
  /\ misses = 0
  /\ issued = << >>
  /\ called = [s \in Stages |-> {}]
  /\ syncs = [s \in Stages |-> 0]
  /\ patches = [s \in Stages |-> 0]
  /\ healthy = {}
  /\ answer = ""
  /\ probed = NoContent

Conns == 1 .. MaxConns

NoConn == [st |-> "none", closed |-> FALSE, raised |-> FALSE]

\* argocd.py:22-32  _PortForwarder.__init__
InitForwarder ==
  /\ _running = FALSE
  /\ _server = "listening"
  /\ caller = "new"
  /\ accept_loop = "new"
  /\ backlog = 0
  /\ conns = [c \in Conns |-> NoConn]
  /\ late = 0

NoRole == [exists |-> FALSE, boundary |-> FALSE, attached |-> FALSE]

\* an account in which the Crossplane role was never created
InitIAM ==
  /\ role = NoRole
  /\ iam_pc = "idle"
  /\ iam_calls = 0
  /\ iam_writes = 0
  /\ iam_found = FALSE
  /\ iam_log = << >>

Init ==
  /\ InitRollout
  /\ resp = ConnectionError
  /\ ret = NoResult
  /\ InitForwarder
  /\ InitIAM

(* ------------------------------- helpers ------------------------------- *)

rolloutVars ==
  << pc, stage, retries, elapsed, slept, sync_status, health_status, token,
     logins, pwReads, forwarder, stops, result, console, probes, misses,
     issued, called, syncs, patches, healthy, answer, probed >>

\* what the first request of a step can meet at login (nothing once the
\* token is cached)
LoginChoices ==
  IF token THEN {[secret |-> TRUE, session |-> [exc |-> FALSE, status_code |-> 200]]}
  ELSE Logins

\* answers to the POST .../sync and PATCH requests: only the status code
\* is read
ActionResponses ==
  {[exc |-> TRUE, status_code |-> 0]}
    \cup {[exc |-> FALSE, status_code |-> c] : c \in StatusCodes}

\* time a request of a waiting loop takes to be answered
Latencies == IF elapsed - slept < MaxLag THEN {0, 1} ELSE {0}

\* argocd.py:141-157  effect of _get_token on the service
Authenticate(auth) ==
  /\ token' = auth.token
  /\ logins' = logins + auth.posts
  /\ pwReads' = pwReads + auth.reads

\* faulty variant of Leave: the forwarder not stopped on the way out
Leave_NoStop(res, lines) ==
  /\ pc' = "done"
  /\ result' = res
  /\ console' = lines
  /\ UNCHANGED << forwarder, stops >>

\* argocd.py:136-139  leaving the `with self._port_forward()` block
\* (return or exception) runs forwarder.stop()
Leave(res, lines) ==
  /\ pc' = "done"
  /\ result' = res
  /\ forwarder' = "stopped"
  /\ stops' = stops + 1
  /\ console' = lines

Call(kind) ==
  /\ called' = [called EXCEPT ![stage] = @ \cup {kind}]
  /\ issued' = << kind >>

\* faulty variant of SyncGate: a rollout that stops on a sync request that
\* was not acknowledged
SyncGate_Checked(ack) == ack

\* argocd.py:326  the value sync_app returns is discarded: whether the
\* orchestrator goes on to wait_for_health after an acknowledgment ack
SyncGate(ack) == TRUE

\* faulty variant of HealthGate: the value of wait_for_health ignored
HealthGate_Ignored(ok) == TRUE

\* argocd.py:327  `if not self.wait_for_health(...)`: whether the
\* orchestrator goes on after wait_for_health returned ok
HealthGate(ok) == ok

\* faulty variant of AutoSyncGate: a rollout that stops when auto-sync could
\* not be enabled
AutoSyncGate_Checked(enabled) == enabled

\* argocd.py:333  enable_auto_sync returns nothing: whether the orchestrator
\* goes on after an attempt that enabled auto-sync or not
AutoSyncGate(enabled) == TRUE

\* argocd.py:261  `if not app` of enable_auto_sync
Absent(app) == app.kind = "none" \/ ~Truthy(app.value)

\* faulty variant of AfterWait: a stage that did not become healthy is
\* synced again
AfterWait_Retry(ok, lines, t) ==
  /\ pc' = IF HealthGate(ok) THEN "auto_sync" ELSE "sync"
  /\ console' = lines
  /\ elapsed' = 0
  /\ slept' = 0
  /\ UNCHANGED << result, forwarder, stops >>

\* argocd.py:327-333  what sync_in_order does with the value ok that
\* wait_for_health returned at elapsed time t, lines being what
\* wait_for_health printed
AfterWait(ok, lines, t) ==
  IF HealthGate(ok)
  THEN /\ pc' = "auto_sync"
       /\ console' = lines
       /\ elapsed' = 0
       /\ slept' = 0
       /\ UNCHANGED << result, forwarder, stops >>
  ELSE /\ Leave("False", lines \o << Line("Failed to sync", stage), Line("Check ArgoCD UI", 0) >>)
       /\ elapsed' = t
       /\ UNCHANGED slept

\* argocd.py:313  the next iteration of the for loop, or argocd.py:335-336
\* after the last one
Advance(lines) ==
  IF stage < Len(apps)
  THEN /\ pc' = "exists_wait"
       /\ stage' = stage + 1
       /\ retries' = 0
       /\ elapsed' = 0
       /\ slept' = 0
       /\ probes' = 0
       /\ misses' = 0
       /\ console' = lines
       /\ UNCHANGED << result, forwarder, stops >>
  ELSE /\ Leave("True", Append(lines, Line("All applications synced successfully", 0)))
       /\ UNCHANGED << stage, retries, elapsed, slept, probes, misses >>

\* argocd.py:333-336  what sync_in_order does after enable_auto_sync
AfterAutoSync(enabled, lines) ==
  IF AutoSyncGate(enabled)
  THEN Advance(lines)
  ELSE /\ Leave("False", lines)
       /\ UNCHANGED << stage, retries, elapsed, slept, probes, misses >>

(* ------------------------------- actions ------------------------------- *)

\* argocd.py:312, 111-134  entering the port-forward; RuntimeError when no
\* argocd-server pod is found
PortForward ==
  /\ pc = "start"
  /\ \E pods \in BOOLEAN :
       IF pods
       THEN /\ pc' = "exists_wait"
            /\ forwarder' = "running"
            /\ UNCHANGED result
       ELSE /\ pc' = "done"
            /\ result' = "raised"
            /\ UNCHANGED forwarder
  /\ UNCHANGED << stage, retries, elapsed, slept, sync_status, health_status,
                  token, logins, pwReads, stops, console, probes, misses,
                  issued, called, syncs, patches, healthy, answer, probed,
                  resp, ret, pfVars, iamVars >>

\* argocd.py:316-319  one evaluation of the existence-wait loop condition
\* and, when it holds, the loop body
ExistsWait ==
  /\ pc = "exists_wait"
  /\ \E env \in LoginChoices, a \in GetAppAnswers, d \in Latencies :
       LET auth == _get_token(token, env)
           app == a.app
       IN
         /\ Authenticate(auth)
         /\ Call("exists")
         /\ answer' = IF auth.raised THEN "" ELSE a.answer
         /\ IF auth.raised \/ app.kind = "raise"
            THEN /\ Leave("raised", << >>)
                 /\ UNCHANGED << retries, elapsed, slept, probes, misses, probed >>
            ELSE /\ probes' = probes + 1
                 /\ probed' = Content(app)
                 /\ misses' = IF app.kind = "none" /\ misses = probes THEN misses + 1 ELSE misses
                 /\ IF StillWaiting(app, retries)
                    THEN /\ console' = << Line("Waiting to be created", stage) >>
                         /\ elapsed' = elapsed + d + ExistsInterval
                         /\ slept' = slept + ExistsInterval
                         /\ retries' = retries + 1
                         /\ UNCHANGED pc
                    ELSE /\ pc' = "exists_check"
                         /\ console' = << >>
                         /\ elapsed' = elapsed + d
                         /\ UNCHANGED << slept, retries >>
                 /\ UNCHANGED << result, forwarder, stops >>
  /\ UNCHANGED << stage, sync_status, health_status, syncs, patches, healthy, resp, ret, pfVars, iamVars >>

\* argocd.py:321-323  the check after the existence wait
ExistsCheck ==
  /\ pc = "exists_check"
  /\ \E env \in LoginChoices, a \in GetAppAnswers, d \in Latencies :
       LET auth == _get_token(token, env)
           app == a.app
       IN
         /\ Authenticate(auth)
         /\ Call("exists")
         /\ answer' = IF auth.raised THEN "" ELSE a.answer
         /\ IF auth.raised \/ app.kind = "raise"
            THEN /\ Leave("raised", << >>)
                 /\ UNCHANGED << elapsed, probes, misses, probed >>
            ELSE /\ probes' = probes + 1
                 /\ probed' = Content(app)
                 /\ misses' = IF app.kind = "none" /\ misses = probes THEN misses + 1 ELSE misses
                 /\ elapsed' = elapsed + d
                 /\ IF NotFound(app)
                    THEN Leave("False", << Line("not found", stage) >>)
                    ELSE /\ pc' = "sync"
                         /\ console' = << >>
                         /\ UNCHANGED << result, forwarder, stops >>
  /\ UNCHANGED << stage, retries, slept, sync_status, health_status,
                  syncs, patches, healthy, resp, ret, pfVars, iamVars >>

\* argocd.py:326, 200-218  sync_app, then entry of wait_for_health
\* (argocd.py:228 takes start_time).  retries is not read again in this
\* iteration of the for loop and is reassigned by the next one (argocd.py:315);
\* it is cleared here, with the probe counts of the finished existence wait.
Sync ==
  /\ pc = "sync"
  /\ \E env \in LoginChoices, r \in ActionResponses :
       LET auth == _get_token(token, env) IN
         /\ Authenticate(auth)
         /\ Call("sync")
         /\ answer' = IF auth.raised THEN "" ELSE Answer(r)
         /\ probed' = NoContent
         /\ IF auth.raised
            THEN /\ Leave("raised", << Line("Syncing", stage) >>)
                 /\ UNCHANGED << elapsed, slept, sync_status, health_status, syncs,
                                 retries, probes, misses >>
            ELSE /\ syncs' = [syncs EXCEPT ![stage] = @ + 1]
                 /\ IF r.exc
                    THEN /\ Leave("raised", << Line("Syncing", stage) >>)
                         /\ UNCHANGED << elapsed, slept, sync_status, health_status,
                                         retries, probes, misses >>
                    ELSE LET ack == sync_app(r.status_code)
                             lines == IF ack THEN << Line("Syncing", stage) >>
                                      ELSE << Line("Syncing", stage), Line("Sync request returned", stage) >>
                         IN IF SyncGate(ack)
                            THEN /\ pc' = "poll"
                                 /\ console' = lines
                                 /\ elapsed' = 0
                                 /\ slept' = 0
                                 /\ sync_status' = ""
                                 /\ health_status' = ""
                                 /\ retries' = 0
                                 /\ probes' = 0
                                 /\ misses' = 0
                                 /\ UNCHANGED << result, forwarder, stops >>
                            ELSE /\ Leave("False", lines)
                                 /\ UNCHANGED << elapsed, slept, sync_status, health_status,
                                                 retries, probes, misses >>
  /\ UNCHANGED << stage, patches, healthy, resp, ret, pfVars, iamVars >>

\* argocd.py:237, 254-255  the loop condition of wait_for_health fails:
\* it prints the timeout line and returns False
PollTimeout ==
  /\ pc = "poll"
  /\ ~WithinTimeout(elapsed, apps[stage].timeout)
  /\ AfterWait(FALSE, << Line("Timeout waiting", stage) >>, elapsed)
  /\ issued' = << >>
  /\ answer' = ""
  /\ UNCHANGED << stage, retries, sync_status, health_status,
                  token, logins, pwReads, probes, misses, called,
                  syncs, patches, healthy, probed, resp, ret, pfVars, iamVars >>

\* argocd.py:237-252  one iteration of the poll loop of wait_for_health.
\* start_time ends with the call: the clock is cleared when the orchestrator
\* goes on.
PollStatus ==
  /\ pc = "poll"
  /\ WithinTimeout(elapsed, apps[stage].timeout)
  /\ \E env \in LoginChoices, a \in StatusAnswers, d \in Latencies :
       LET auth == _get_token(token, env)
           st == a.st
       IN
         /\ Authenticate(auth)
         /\ Call("status")
         /\ answer' = IF auth.raised THEN "" ELSE a.answer
         /\ IF auth.raised \/ st.kind = "raise"
            THEN /\ Leave("raised", << >>)
                 /\ UNCHANGED << elapsed, slept, sync_status, health_status, healthy >>
            ELSE /\ sync_status' = st.sync
                 /\ health_status' = st.health
                 /\ healthy' = IF st.sync = "Synced" /\ st.health = "Healthy"
                               THEN healthy \cup {stage} ELSE healthy
                 /\ IF IsTarget(st.sync, st.health)
                    THEN AfterWait(TRUE, << Line("is Healthy", stage) >>, elapsed + d)
                    ELSE IF IsDegraded(st.sync, st.health)
                    THEN AfterWait(FALSE, << Line("is Degraded", stage) >>, elapsed + d)
                    ELSE /\ elapsed' = elapsed + d + PollInterval
                         /\ slept' = slept + PollInterval
                         /\ console' = << >>
                         /\ UNCHANGED << pc, result, forwarder, stops >>
  /\ UNCHANGED << stage, retries, probes, misses, syncs, patches, probed, resp, ret, pfVars, iamVars >>

\* argocd.py:333, 257-286  enable_auto_sync, then the next stage or the
\* final return
AutoSync ==
  /\ pc = "auto_sync"
  /\ \E env \in LoginChoices, a \in GetAppAnswers, r \in ActionResponses :
       LET auth == _get_token(token, env)
           app == a.app
       IN
         /\ Authenticate(auth)
         /\ Call("auto_sync")
         /\ answer' = IF auth.raised THEN ""
                       ELSE IF app.kind = "raise" \/ Absent(app) THEN a.answer
                       ELSE Answer(r)
         /\ IF auth.raised \/ app.kind = "raise"
            THEN /\ Leave("raised", << >>)
                 /\ UNCHANGED << stage, retries, elapsed, slept, probes, misses, patches >>
            ELSE IF Absent(app)
            THEN /\ AfterAutoSync(FALSE, << Line("not found", stage) >>)
                 /\ UNCHANGED patches
            ELSE /\ patches' = [patches EXCEPT ![stage] = @ + 1]
                 /\ IF r.exc
                    THEN /\ Leave("raised", << >>)
                         /\ UNCHANGED << stage, retries, elapsed, slept, probes, misses >>
                    ELSE IF PatchAccepted(r.status_code)
                    THEN AfterAutoSync(TRUE, << Line("Enabled auto-sync", stage) >>)
                    ELSE AfterAutoSync(FALSE, << Line("Failed to enable auto-sync", stage) >>)
  /\ UNCHANGED << sync_status, health_status, syncs, healthy, probed, resp, ret, pfVars, iamVars >>

Next ==
  \/ PortForward
  \/ ExistsWait
  \/ ExistsCheck
  \/ Sync
  \/ PollTimeout
  \/ PollStatus
  \/ AutoSync

Spec == Init /\ [][Next]_vars

(* ----------------- get_app_status as a function of the answer ---------- *)

InitStatus ==
  /\ InitRollout
  /\ resp \in Responses
  /\ ret = NoResult
  /\ InitForwarder
  /\ InitIAM

\* argocd.py:189-198  one call of get_app_status on the answer resp
GetAppStatus ==
  /\ ret = NoResult
  /\ ret' = get_app_status(resp)
  /\ UNCHANGED resp
  /\ UNCHANGED rolloutVars
  /\ UNCHANGED << pfVars, iamVars >>

NextStatus == GetAppStatus

SpecStatus == InitStatus /\ [][NextStatus]_vars

(* --------------------- _PortForwarder and its threads ------------------ *)

\* what the threads of a _PortForwarder leave alone
otherThanForwarder == << rolloutVars, resp, ret, iamVars >>

\* connections accepted so far
Accepted == {c \in Conns : conns[c].st # "none"}

\* faulty variant of LoopCondition: `while True`
LoopCondition_Forever(running) == TRUE

\* argocd.py:51  `while self._running`
LoopCondition(running) == running

\* faulty variant of CloseLocal: the close at the end of the try block
\* instead of in the finally
CloseLocal_InTry(raised) == ~raised

\* argocd.py:78-82  whether the handler has closed local_conn when it ends,
\* after a try block that raised or not
CloseLocal(raised) == TRUE

\* a client connects to the local port: the connection waits in the listen
\* queue (argocd.py:29)
Connect ==
  /\ _server = "listening"
  /\ backlog + Cardinality(Accepted) < MaxConns
  /\ backlog' = backlog + 1
  /\ UNCHANGED << _running, _server, caller, accept_loop, conns, late >>
  /\ UNCHANGED otherThanForwarder

\* argocd.py:38-42  start()
Start ==
  /\ caller = "new"
  /\ _running' = TRUE
  /\ accept_loop' = "test"
  /\ caller' = "serving"
  /\ UNCHANGED << _server, backlog, conns, late >>
  /\ UNCHANGED otherThanForwarder

\* argocd.py:45  first statement of stop()
StopFlag ==
  /\ caller = "serving"
  /\ _running' = FALSE
  /\ caller' = "stop_close"
  /\ UNCHANGED << _server, accept_loop, backlog, conns, late >>
  /\ UNCHANGED otherThanForwarder

\* argocd.py:46  the listening socket closed: connections still queued are
\* dropped
StopClose ==
  /\ caller = "stop_close"
  /\ _server' = "closed"
  /\ backlog' = 0
  /\ caller' = "stop_join"
  /\ UNCHANGED << _running, accept_loop, conns, late >>
  /\ UNCHANGED otherThanForwarder

\* argocd.py:47-48  join(timeout=2) returns, the thread ended or not
StopJoin ==
  /\ caller = "stop_join"
  /\ caller' = "stopped"
  /\ UNCHANGED << _running, _server, accept_loop, backlog, conns, late >>
  /\ UNCHANGED otherThanForwarder

\* argocd.py:51  the loop condition; accept() is entered on the socket as it
\* is then
LoopTest ==
  /\ accept_loop = "test"
  /\ accept_loop' = IF ~LoopCondition(_running) THEN "ended"
                    ELSE IF _server = "listening" THEN "accept"
                    ELSE "accept_closed"
  /\ UNCHANGED << _running, _server, caller, backlog, conns, late >>
  /\ UNCHANGED otherThanForwarder

\* argocd.py:53-58  accept() returns a connection and its handler thread is
\* started
Accept ==
  /\ accept_loop = "accept"
  /\ _server = "listening"
  /\ backlog > 0
  /\ LET c == Cardinality(Accepted) + 1 IN
       conns' = [conns EXCEPT ![c] = [st |-> "handling", closed |-> FALSE, raised |-> FALSE]]
  /\ backlog' = backlog - 1
  /\ late' = IF _running THEN late ELSE late + 1
  /\ accept_loop' = "test"
  /\ UNCHANGED << _running, _server, caller >>
  /\ UNCHANGED otherThanForwarder

\* argocd.py:59-60  accept() entered on the open socket times out (1.0 s,
\* argocd.py:27), no connection waiting or the socket closed meanwhile
AcceptTimeout ==
  /\ accept_loop = "accept"
  /\ backlog = 0
  /\ accept_loop' = "test"
  /\ UNCHANGED << _running, _server, caller, backlog, conns, late >>
  /\ UNCHANGED otherThanForwarder

\* argocd.py:61-62  accept() on the closed socket raises OSError
AcceptOSError ==
  /\ accept_loop \in {"accept", "accept_closed"}
  /\ _server = "closed"
  /\ accept_loop' = "ended"
  /\ UNCHANGED << _running, _server, caller, backlog, conns, late >>
  /\ UNCHANGED otherThanForwarder

\* the handler of connection c ends, its try block having raised or not
EndHandler(c, raised) ==
  conns' = [conns EXCEPT ![c] = [st |-> "ended", closed |-> CloseLocal(raised), raised |-> raised]]

\* argocd.py:66  self._pf.socket(...) returns the remote socket or raises
OpenRemote(c) ==
  /\ conns[c].st = "handling"
  /\ \E ok \in BOOLEAN :
       IF ok THEN conns' = [conns EXCEPT ![c].st = "forwarding"]
       ELSE EndHandler(c, TRUE)
  /\ UNCHANGED << _running, _server, caller, accept_loop, backlog, late >>
  /\ UNCHANGED otherThanForwarder

\* argocd.py:68-82  both directions forwarded until _forward returns (end of
\* data, an exception it swallows, _running cleared), or the second thread
\* cannot be started and the try block raises
Forwarding(c) ==
  /\ conns[c].st = "forwarding"
  /\ \E raised \in BOOLEAN : EndHandler(c, raised)
  /\ UNCHANGED << _running, _server, caller, accept_loop, backlog, late >>
  /\ UNCHANGED otherThanForwarder

LoopStep == LoopTest \/ Accept \/ AcceptTimeout \/ AcceptOSError

NextForwarder ==
  \/ Connect
  \/ Start
  \/ StopFlag
  \/ StopClose
  \/ StopJoin
  \/ LoopTest
  \/ Accept
  \/ AcceptTimeout
  \/ AcceptOSError
  \/ \E c \in Conns : OpenRemote(c)
  \/ \E c \in Conns : Forwarding(c)

SpecForwarder == Init /\ [][NextForwarder]_vars

\* the accept loop thread is scheduled, and a call of accept() returns:
\* with a connection, with the timeout of argocd.py:27, or with OSError
FairForwarder == SpecForwarder /\ WF_vars(LoopStep)

(* ------------------- AWSService.create_crossplane_role ----------------- *)

\* what a call of create_crossplane_role leaves alone
otherThanIAM == << rolloutVars, resp, ret, pfVars >>

\* answers of IAM to a request: done, or an error other than the
\* NoSuchEntityException of get_role (access denied, throttling, no network)
IAMAnswers == {"ok", "error"}

\* aws.py:104-110  role_exists: get_role succeeds, or NoSuchEntityException
role_exists(r) == r.exists

\* aws.py:126-132  a call begins with role_exists; when the role exists the
\* call prints that and returns
CallCreateRole ==
  /\ iam_pc \in {"idle", "returned", "raised"}
  /\ iam_calls < MaxCalls
  /\ iam_calls' = iam_calls + 1
  /\ iam_writes' = 0
  /\ \E a \in IAMAnswers :
       IF a = "error"
       THEN /\ iam_pc' = "raised"
            /\ iam_found' = FALSE
            /\ iam_log' = Append(iam_log, "get_role raised")
       ELSE /\ iam_found' = role_exists(role)
            /\ iam_pc' = IF role_exists(role) THEN "returned" ELSE "create_role"
            /\ iam_log' = IF role_exists(role) THEN Append(iam_log, "already exists")
                          ELSE iam_log
  /\ UNCHANGED role
  /\ UNCHANGED otherThanIAM

\* aws.py:152-156  iam.create_role with the trust policy and the permission
\* boundary
CreateRole ==
  /\ iam_pc = "create_role"
  /\ \E a \in IAMAnswers :
       IF a = "error" \/ role.exists
       THEN /\ iam_pc' = "raised"
            /\ iam_log' = Append(iam_log, "create_role raised")
            /\ UNCHANGED << role, iam_writes >>
       ELSE /\ role' = [exists |-> TRUE, boundary |-> TRUE, attached |-> FALSE]
            /\ iam_writes' = iam_writes + 1
            /\ iam_pc' = "attach_policy"
            /\ UNCHANGED iam_log
  /\ UNCHANGED << iam_calls, iam_found >>
  /\ UNCHANGED otherThanIAM

\* aws.py:158-163  iam.attach_role_policy of AdministratorAccess, then the
\* return
AttachPolicy ==
  /\ iam_pc = "attach_policy"
  /\ \E a \in IAMAnswers :
       IF a = "error"
       THEN /\ iam_pc' = "raised"
            /\ iam_log' = Append(iam_log, "attach_role_policy raised")
            /\ UNCHANGED << role, iam_writes >>
       ELSE /\ role' = [role EXCEPT !.attached = TRUE]
            /\ iam_writes' = iam_writes + 1
            /\ iam_pc' = "returned"
            /\ iam_log' = Append(iam_log, "created")
  /\ UNCHANGED << iam_calls, iam_found >>
  /\ UNCHANGED otherThanIAM

NextIAM ==
  \/ CallCreateRole
  \/ CreateRole
  \/ AttachPolicy

SpecIAM == Init /\ [][NextIAM]_vars

(* ================================ claims =============================== *)

LaterStagesUntouched(S) ==
  \A T \in Stages : T > S => called[T] = {} /\ syncs[T] = 0 /\ patches[T] = 0

\* C1: for every stage S, when no existence probe of S (none of the wait
\* loop, nor the check after it) reported the application present, the run
\* has returned False with the "not found" line for S, no sync, status or
\* auto-sync call was made for S, and no call at all for any later stage.
C1_NotFoundAborts ==
  \A S \in Stages :
    ( /\ stage = S
      /\ pc \notin {"start", "exists_wait", "exists_check"}
      /\ probes > 0
      /\ misses = probes
      /\ result # "raised" )
    => /\ pc = "done"
       /\ result = "False"
       /\ console = << Line("not found", S) >>
       /\ called[S] = {"exists"}
       /\ syncs[S] = 0
       /\ patches[S] = 0
       /\ LaterStagesUntouched(S)

C1_Witness ==
  /\ stage = 3
  /\ pc = "done"
  /\ result = "False"
  /\ probes > 0
  /\ misses = probes

\* the latest step declared stage A failed: the "not found" line of the
\* existence check, the "is Degraded" line or the "Timeout waiting" line
StageFailed(A) ==
  /\ stage = A
  /\ Len(console) > 0
  /\ \/ console[1] = Line("not found", A) /\ issued = << "exists" >>
     \/ console[1] = Line("is Degraded", A)
     \/ console[1] = Line("Timeout waiting", A)

\* C2: when a stage A fails (not found, degraded or timeout), the run has
\* returned False and no existence probe, sync trigger, status read or
\* auto-sync patch has been made for any stage after A.
C2_AbortOnFirstFailure ==
  \A A \in Stages :
    StageFailed(A) => pc = "done" /\ result = "False" /\ LaterStagesUntouched(A)

C2_Witness ==
  /\ StageFailed(2)
  /\ console[1] = Line("Timeout waiting", 2)
  /\ result = "False"
  /\ called[1] = {"exists", "sync", "status", "auto_sync"}

\* C3: once a status poll of the stage returned (Synced, Healthy) the poll
\* loop is left (no sleep, no further status poll for the stage), and the
\* auto-sync PATCH of an application is issued at most once in the run.
C3_StopOnTarget ==
  /\ [](sync_status = "Synced" /\ health_status = "Healthy" => pc # "poll")
  /\ [][sync_status = "Synced" /\ health_status = "Healthy" => issued' # << "status" >>]_vars
  /\ [](\A s \in Stages : patches[s] <= 1)

C3_Witness ==
  /\ pc = "auto_sync"
  /\ stage = 2
  /\ sync_status = "Synced"
  /\ health_status = "Healthy"
  /\ issued = << "status" >>
  /\ patches[1] = 1

\* C4: a status poll that returns health Degraded, with any sync value and
\* at any elapsed time, ends the run at once with False and the
\* "is Degraded" line for the stage; auto-sync is not enabled for the stage
\* and no call is made for any later stage.
C4_DegradedFailsFast ==
  health_status = "Degraded"
    => /\ pc = "done"
       /\ result = "False"
       /\ issued = << "status" >>
       /\ Len(console) > 0
       /\ console[1] = Line("is Degraded", stage)
       /\ "auto_sync" \notin called[stage]
       /\ patches[stage] = 0
       /\ LaterStagesUntouched(stage)

C4_Witness ==
  /\ health_status = "Degraded"
  /\ sync_status = "Synced"
  /\ stage = 3
  /\ slept = 0
  /\ result = "False"

\* C5: wait_for_health fails with the timeout line exactly when its loop
\* condition is evaluated at an elapsed time at or beyond the stage's
\* timeout (no poll having returned (Synced, Healthy) or Degraded before);
\* no status poll is started then, and the run returns False.
C5_Timeout ==
  /\ []( (Len(console) > 0 /\ console[1].msg = "Timeout waiting")
           => /\ pc = "done"
              /\ result = "False"
              /\ issued = << >>
              /\ elapsed >= apps[stage].timeout
              /\ stage \notin healthy
              /\ health_status # "Degraded" )
  /\ [][pc = "poll"
          => IF elapsed >= apps[stage].timeout
             THEN /\ issued' = << >>
                  /\ result' = "False"
                  /\ Len(console') > 0
                  /\ console'[1] = Line("Timeout waiting", stage)
             ELSE /\ issued' = << "status" >>
                  /\ (Len(console') = 0 \/ console'[1].msg # "Timeout waiting")]_vars

C5_Witness ==
  /\ Len(console) > 0
  /\ console[1] = Line("Timeout waiting", 1)
  /\ elapsed = apps[1].timeout + 1
  /\ result = "False"

\* C6 as stated: 13 consecutive absent answers make the run fail with
\* "not found" whatever a later check returns; at most 12 retries, 5 apart,
\* so about 60 time units.
C6_Original ==
  /\ (misses >= 13 /\ pc # "exists_check" /\ result # "raised")
       => pc = "done" /\ result = "False" /\ console = << Line("not found", stage) >>
  /\ (pc \in {"exists_wait", "exists_check"} => retries <= 12 /\ slept = 5 * retries)
  /\ (misses >= 13 /\ pc = "done" /\ result = "False" => slept = 60)

\* C6 amended: 14 consecutive absent answers (the 13 evaluations of the wait
\* loop's condition and the check after the loop) make the run fail with
\* "not found"; the wait sleeps at most 12 times, 5 apart, so that failure
\* comes after 60 time units of sleep; at most 14 probes are made per stage.
C6_Amended ==
  /\ (misses >= 14 /\ result # "raised")
       => /\ pc = "done"
          /\ result = "False"
          /\ console = << Line("not found", stage) >>
          /\ slept = 60
          /\ elapsed >= 60
          /\ elapsed <= 60 + MaxLag
  /\ (pc \in {"exists_wait", "exists_check"} => retries <= 12 /\ slept = 5 * retries)
  /\ (pc = "exists_check" /\ misses = probes => retries = 12 /\ probes = 13)
  /\ probes <= 14

C6_Witness ==
  /\ misses = 14
  /\ pc = "done"
  /\ result = "False"
  /\ slept = 60
  /\ stage = 3

\* C7: whatever status code answers the sync request (acknowledged or not),
\* the orchestrator goes on to poll the stage: the run has not returned and
\* wait_for_health has started.
C7_SyncAdvisory ==
  (issued = << "sync" >> /\ result # "raised")
    => /\ pc = "poll"
       /\ result = "running"
       /\ syncs[stage] = 1
       /\ elapsed = 0
       /\ sync_status = ""

C7_Witness ==
  /\ issued = << "sync" >>
  /\ Len(console) = 2
  /\ console[2] = Line("Sync request returned", 2)
  /\ pc = "poll"

\* C8: enable_auto_sync is called, and the auto-sync PATCH issued, only for
\* a stage of which a status poll has returned (Synced, Healthy), after the
\* stage's sync trigger; never for the stage the run failed on.
C8_AutoSyncAfterHealthy ==
  /\ \A s \in Stages :
       (patches[s] > 0 \/ "auto_sync" \in called[s])
         => s \in healthy /\ syncs[s] > 0 /\ "status" \in called[s]
  /\ (pc = "done" /\ result = "False")
       => patches[stage] = 0 /\ "auto_sync" \notin called[stage]

C8_Witness ==
  /\ patches[2] = 1
  /\ 2 \in healthy
  /\ stage = 3
  /\ pc = "exists_wait"

\* C9: when enable_auto_sync finds the application absent or its PATCH is
\* not accepted, the orchestrator goes on to the next stage (or returns True
\* after the last); when the application is absent no PATCH is sent.
C9_AutoSyncBestEffort ==
  ( /\ issued = << "auto_sync" >>
    /\ Len(console) > 0
    /\ console[1].msg \in {"not found", "Failed to enable auto-sync"} )
  => LET s == console[1].app IN
       /\ s \in healthy
       /\ IF s < Len(apps)
          THEN pc = "exists_wait" /\ stage = s + 1 /\ result = "running"
          ELSE pc = "done" /\ result = "True"
       /\ (console[1].msg = "not found" => patches[s] = 0)
       /\ (console[1].msg = "Failed to enable auto-sync" => patches[s] = 1)

C9_Witness ==
  /\ result = "True"
  /\ patches[1] = 0
  /\ patches[2] = 1
  /\ console[1] = Line("Failed to enable auto-sync", 4)

\* the status field k ("sync" or "health") of an application body
StatusField(json, k) ==
  IF /\ "status" \in DOMAIN json
     /\ k \in DOMAIN json.status
     /\ "status" \in DOMAIN json.status[k]
  THEN json.status[k].status
  ELSE "Unknown"

\* C10: get_app_status returns (Unknown, Unknown) on a 404 answer, Unknown
\* for whichever of sync and health the application body lacks, and raises
\* on every other failed answer (4xx, 5xx, no answer at all).
C10_StatusClient ==
  ret # NoResult
    => IF resp.exc THEN ret = StatusRaised
       ELSE IF resp.status_code = 404 THEN ret = Status("Unknown", "Unknown")
       ELSE IF resp.status_code >= 400 THEN ret = StatusRaised
       ELSE ret = Status(StatusField(resp.json, "sync"), StatusField(resp.json, "health"))

C10_Witness ==
  /\ ret = Status("Unknown", "Unknown")
  /\ ~resp.exc
  /\ resp.status_code = 404

C12_SyncTransportFailureNotFatal ==
  issued = << "sync" >>
    => /\ (answer = "exc" => pc = "poll" /\ result = "running" /\ Len(console) > 1)
       /\ (result = "raised" => ~token)

\* C13 as stated: the value sync_in_order returns on failure identifies the
\* stage that failed and the reason, so that runs that failed at different
\* stages or for different reasons return different values.  Every failed
\* run returns the same value False: it identifies a stage and a reason only
\* if all failed runs share them, those of the run that fails at the
\* existence check of the first stage.
C13_Original ==
  (pc = "done" /\ result = "False")
    => stage = 1 /\ console[1].msg = "not found"

\* C13: a run that returns False has printed, as the first line of its last
\* step, a line that names the failed stage and gives the reason that
\* occurred: "not found" after an existence check answered by a 404,
\* "is Degraded" after a status read with health Degraded, "Timeout waiting"
\* when the timeout elapsed without target or Degraded.
C13_FailureOnConsole ==
  (pc = "done" /\ result = "False")
    => /\ Len(console) >= 1
       /\ console[1].app = stage
       /\ \/ /\ console[1].msg = "not found"
             /\ issued = << "exists" >>
             /\ answer = "404"
             /\ syncs[stage] = 0
          \/ /\ console[1].msg = "is Degraded"
             /\ issued = << "status" >>
             /\ health_status = "Degraded"
          \/ /\ console[1].msg = "Timeout waiting"
             /\ issued = << >>
             /\ elapsed >= apps[stage].timeout
             /\ health_status # "Degraded"
             /\ ~(sync_status = "Synced" /\ health_status = "Healthy")

C13_Witness ==
  /\ pc = "done"
  /\ result = "False"
  /\ stage = 2
  /\ console[1] = Line("is Degraded", 2)
  /\ sync_status = "OutOfSync"
  /\ answer = "ok"

AllCalls == {"exists", "sync", "status", "auto_sync"}

\* the stages are taken in the order of apps, one at a time: every stage
\* before the current one had its existence probes, exactly one sync
\* trigger, a status poll that returned (Synced, Healthy) and its auto-sync
\* step; no call was made for a stage after the current one; within a stage
\* the sync trigger follows an existence probe, the status polls follow the
\* sync trigger and the auto-sync step follows a poll that returned
\* (Synced, Healthy)
StagesInOrder ==
  /\ [s \in Stages |-> apps[s].name]
       = << "crossplane", "crossplane-providers", "infrastructure", "supabase" >>
  /\ \A s \in Stages :
       /\ s < stage => called[s] = AllCalls /\ syncs[s] = 1 /\ s \in healthy
       /\ s > stage => called[s] = {} /\ syncs[s] = 0 /\ patches[s] = 0 /\ s \notin healthy
       /\ "sync" \in called[s] => "exists" \in called[s]
       /\ "status" \in called[s] => "sync" \in called[s] /\ syncs[s] = 1
       /\ "auto_sync" \in called[s] => "status" \in called[s] /\ s \in healthy
       /\ syncs[s] <= 1

\* C14: the stages are processed in the fixed order crossplane,
\* crossplane-providers, infrastructure, supabase without overlap, each as
\* existence probes, one sync trigger, status polls, auto-sync, the first
\* call for a stage coming after the auto-sync step of the stage before; and
\* the run has returned True exactly when it is over and every stage had a
\* status poll that returned (Synced, Healthy).
C14_OrderedSuccess ==
  /\ StagesInOrder
  /\ (result = "True" => pc = "done" /\ healthy = Stages /\ called[Len(apps)] = AllCalls)
  /\ (pc = "done" /\ healthy = Stages => result = "True")

\* position of a step within the iteration of the for loop
Rank(p) ==
  CASE p = "start" -> 0
    [] p = "exists_wait" -> 1
    [] p = "exists_check" -> 2
    [] p = "sync" -> 3
    [] p = "poll" -> 4
    [] p = "auto_sync" -> 5
    [] p = "done" -> 6

\* C15: no automatic retry.  The sync request of a stage is sent at most
\* once; the stage index never decreases and grows by one at a time, and
\* within a stage the run never goes back to an earlier step, so no stage is
\* visited twice; once the run is over (a stage failed, or all succeeded)
\* nothing is entered again.
C15_NoRetry ==
  /\ [](\A s \in Stages : syncs[s] <= 1)
  /\ [][stage' \in {stage, stage + 1}]_vars
  /\ [][stage' = stage => Rank(pc') >= Rank(pc)]_vars
  /\ [][stage' = stage + 1 => pc = "auto_sync" /\ pc' = "exists_wait"]_vars
  /\ [][pc = "done" => pc' = "done" /\ called' = called /\ syncs' = syncs]_vars

C15_Witness ==
  /\ pc = "done"
  /\ result = "False"
  /\ stage = 2
  /\ syncs = << 1, 1, 0, 0 >>
  /\ health_status = "Degraded"
  /\ sync_status = "Synced"

\* C16: the session is set up lazily and cached.  The first request (made
\* with no token) reads the admin password once and, when it was read,
\* sends the login once; once a login succeeded the token stays set and no
\* later request reads the password or logs in again, so a run makes at
\* most one password read and one login.
C16_SessionCache ==
  /\ [](logins <= 1 /\ pwReads <= 1)
  /\ [](token => logins = 1 /\ pwReads = 1)
  /\ [][~token /\ issued' # << >> /\ pc # "done"
          => pwReads' = pwReads + 1 /\ logins' \in {logins, logins + 1} /\ (token' => logins' = logins + 1)]_vars
  /\ [][token => token' /\ logins' = logins /\ pwReads' = pwReads]_vars

C16_Witness ==
  /\ token
  /\ logins = 1
  /\ pwReads = 1
  /\ stage = 2
  /\ pc = "poll"
  /\ issued = << "status" >>

\* C17: when the session cannot be established (the password cannot be
\* read, or the login request raises or is refused) the run is over at once
\* with an exception, not a boolean: the token is unset, the port-forward is
\* stopped, and the request that needed the token was not sent; no sync or
\* PATCH request was sent and no request is ever answered without a token.
C17_SessionFailureFatal ==
  /\ (~token /\ pwReads > 0)
       => /\ pc = "done"
          /\ result = "raised"
          /\ forwarder = "stopped"
          /\ answer = ""
          /\ issued = << "exists" >>
          /\ stage = 1
          /\ \A s \in Stages : syncs[s] = 0 /\ patches[s] = 0 /\ called[s] \subseteq {"exists"}
  /\ (answer # "" => token)
  /\ \A s \in Stages : syncs[s] > 0 \/ patches[s] > 0 => token

C17_Witness ==
  /\ ~token
  /\ pwReads = 1
  /\ logins = 1
  /\ result = "raised"
  /\ answer = ""

\* the pairs other than (Synced, Healthy) and (any, Degraded)
Intermediate(sync, health) ==
  /\ ~(sync = "Synced" /\ health = "Healthy")
  /\ health # "Degraded"

\* C18: a status poll of wait_for_health that returns a pair other than
\* (Synced, Healthy) and (any, Degraded) does not end the wait: the loop
\* sleeps one interval, the run stays in the poll loop of the same stage,
\* and as long as the elapsed time is below the timeout the next step is
\* another status poll.
C18_OnlyTwoTerminalPairs ==
  /\ [][( /\ pc = "poll"
          /\ issued' = << "status" >>
          /\ result' # "raised"
          /\ Intermediate(sync_status', health_status') )
         => /\ pc' = "poll"
            /\ result' = "running"
            /\ stage' = stage
            /\ slept' = slept + PollInterval
            /\ elapsed' >= elapsed + PollInterval]_vars
  /\ [][pc = "poll" /\ elapsed < apps[stage].timeout => issued' = << "status" >>]_vars

C18_Witness ==
  /\ pc = "poll"
  /\ sync_status = "OutOfSync"
  /\ health_status = "Healthy"
  /\ slept = 2 * PollInterval
  /\ elapsed < apps[stage].timeout

\* C19: every iteration of the poll loop that goes on sleeps the fixed
\* interval of 5, and the time a stage has spent sleeping in its poll loop
\* never exceeds the timeout of the stage, also when the last poll started
\* less than one interval before the timeout.
C19_SleepWithinTimeout ==
  /\ [](pc = "poll" => slept <= apps[stage].timeout /\ slept % PollInterval = 0)
  /\ [](pc = "done" /\ issued \in {<< >>, << "status" >>} => slept <= apps[stage].timeout)
  /\ [][pc = "poll" /\ pc' = "poll" => slept' = slept + PollInterval]_vars
  /\ [][pc = "poll" /\ pc' # "poll" => slept' \in {slept, 0}]_vars

C19_Witness ==
  /\ pc = "poll"
  /\ stage = 1
  /\ slept = apps[1].timeout
  /\ elapsed = apps[1].timeout + 1

\* C20: existence does not depend on the status content.  An existence
\* probe whose request fetched the application moves the stage on (out of
\* the wait loop, and from the check after it to the sync trigger) whatever
\* the sync and health fields of the answer are, Unknown, missing and
\* Degraded included; no status is read and nothing is classified for the
\* stage before its sync trigger.
C20_ExistenceIgnoresStatus ==
  /\ [][( /\ pc \in {"exists_wait", "exists_check"}
          /\ issued' = << "exists" >>
          /\ answer' = "ok" )
         => /\ pc' = (IF pc = "exists_wait" THEN "exists_check" ELSE "sync")
            /\ result' = "running"
            /\ stage' = stage
            /\ probed' # NoContent]_vars
  /\ [](pc \in {"exists_wait", "exists_check", "sync"}
          => "status" \notin called[stage] /\ stage \notin healthy)
  /\ [](pc = "poll" => "sync" \in called[stage] /\ probed = NoContent)

C20_Witness ==
  /\ pc = "sync"
  /\ stage = 1
  /\ probed = [sync |-> "missing", health |-> "Degraded"]
  /\ retries = 0

(* ------------------------------ termination ---------------------------- *)

\* steps the poll loop of a stage can still take at elapsed time e with
\* timeout T: one poll per interval left, and the step that times out
PollBudget(e, T) == IF e >= T THEN 1 ELSE (T - e + PollInterval - 1) \div PollInterval + 1

\* steps a stage can take from its first existence probe: the evaluations
\* of the wait condition, the check, the sync trigger, the polls, auto-sync
StageBudget(s) == (MaxRetries + 1) + 1 + 1 + PollBudget(0, apps[s].timeout) + 1

RECURSIVE LaterBudget(_)
LaterBudget(s) == IF s >= Len(apps) THEN 0 ELSE StageBudget(s + 1) + LaterBudget(s + 1)

\* an upper bound of the number of steps the run can still take
Variant ==
  CASE pc = "done" -> 0
    [] pc = "start" -> 1 + StageBudget(1) + LaterBudget(1)
    [] pc = "exists_wait" ->
         (IF retries <= MaxRetries THEN MaxRetries - retries + 1 ELSE 0)
           + 3 + PollBudget(0, apps[stage].timeout) + LaterBudget(stage)
    [] pc = "exists_check" -> 3 + PollBudget(0, apps[stage].timeout) + LaterBudget(stage)
    [] pc = "sync" -> 2 + PollBudget(0, apps[stage].timeout) + LaterBudget(stage)
    [] pc = "poll" -> 1 + PollBudget(elapsed, apps[stage].timeout) + LaterBudget(stage)
    [] pc = "auto_sync" -> 1 + LaterBudget(stage)

\* C21: every run of sync_in_order returns or raises after finitely many
\* steps, whatever the control plane answers: as long as it is not over it
\* is at a position from which a step is taken, and every step lowers a
\* bound on the steps left, which is zero only when the run is over; a stage
\* sleeps at most 12 times in its existence wait and its poll loop sleeps no
\* longer than its timeout.
C21_Termination ==
  /\ [][Variant' < Variant]_vars
  /\ [](Variant >= 0 /\ (Variant = 0 <=> pc = "done"))
  /\ [](pc \in {"start", "exists_wait", "exists_check", "sync", "poll", "auto_sync", "done"})
  /\ [](retries <= MaxRetries)
  /\ [](pc = "exists_wait" => slept = retries * ExistsInterval)
  /\ [](pc = "poll" => slept <= apps[stage].timeout)

C21_Witness ==
  /\ pc = "done"
  /\ result = "False"
  /\ stage = 2
  /\ retries = MaxRetries
  /\ slept = MaxRetries * ExistsInterval

\* C22: on every way out of a run that opened the port-forward (True
\* returned, False returned by a failed stage, an exception raised by a
\* client call) the forwarder has been stopped, by exactly one call of stop;
\* it is not stopped while the run goes on, and client methods are called
\* only while it is running.
C22_ForwarderStopped ==
  /\ [](pc = "done" /\ (result \in {"True", "False"} \/ issued # << >>)
          => forwarder = "stopped" /\ stops = 1)
  /\ [](pc \notin {"start", "done"} => forwarder = "running" /\ stops = 0)
  /\ [](stops <= 1 /\ (forwarder = "stopped" <=> stops = 1))
  /\ [][called' # called \/ issued' # issued \/ answer' # answer
          => forwarder = "running"]_vars
  /\ [][forwarder = "stopped" => UNCHANGED << called, syncs, patches, logins, pwReads >>]_vars

C22_Witness ==
  /\ pc = "done"
  /\ result = "raised"
  /\ issued = << "auto_sync" >>
  /\ stage = 2
  /\ forwarder = "stopped"
  /\ stops = 1

\* stop() has been called (its first statement has run)
StopCalled == caller \in {"stop_close", "stop_join", "stopped"}

\* every handler that ended has closed its local connection
HandlersClose == \A c \in Conns : conns[c].st = "ended" => conns[c].closed

\* C23 as stated: once stop() is called the accept loop accepts no further
\* connection and eventually ends, however stop() interleaves with a
\* pending accept, an accept timeout or a running handler; and every handler
\* that ends has closed its local connection.
C23_Original ==
  /\ [][StopCalled => Accepted' = Accepted]_vars
  /\ (StopCalled ~> accept_loop = "ended")
  /\ []HandlersClose

\* C23: once stop() has closed the listening socket the accept loop accepts
\* no further connection; between the clearing of _running and that close it
\* accepts at most one; once stop() is called the loop eventually ends, and
\* stays ended, however stop() interleaves with a pending accept, an accept
\* timeout or a running handler; and every handler that ends has closed its
\* local connection, whether its try block raised or not.
C23_Shutdown ==
  /\ [][_server = "closed" => Accepted' = Accepted]_vars
  /\ [](late <= 1)
  /\ (StopCalled ~> accept_loop = "ended")
  /\ [][accept_loop = "ended" => accept_loop' = "ended"]_vars
  /\ []HandlersClose

C23_Witness ==
  /\ caller = "stopped"
  /\ accept_loop = "ended"
  /\ late = 1
  /\ conns[1].st = "ended"
  /\ conns[1].raised
  /\ conns[1].closed
  /\ conns[2].st = "forwarding"

\* C24: whenever a call of create_crossplane_role has returned without
\* error the Crossplane role exists, with the permission boundary and with
\* the administrator policy attached, whatever calls came before, a call
\* that failed between creating the role and attaching the policy included;
\* and a call that found the role existing made no IAM mutation.
C24_RoleComplete ==
  /\ (iam_pc = "returned" => role.exists /\ role.boundary /\ role.attached)
  /\ (iam_pc = "returned" /\ iam_found => iam_writes = 0)

====
